---- MODULE Spec2Model ----
(***************************************************************************)
(* Model of kiyofm.py: the periodic evaluation cycle check_trades, the     *)
(* persisted position state (trade_state.json), the completed-trade ledger *)
(* (completed_trades.csv) and the /report command handler.                *)
(*                                                                         *)
(* Everything runs on one asyncio event loop.  A coroutine runs from one   *)
(* await to the next without interruption; `loop` names the coroutine that *)
(* currently runs (0 when the loop is free).  Within such a stretch the    *)
(* model still takes one step per file-system operation, so the content of *)
(* the two files is visible at every point where the code leaves it.       *)
(*                                                                         *)
(* Money is counted in mills (1/1000 rupee); the ledger stores the two     *)
(* decimals the code formats (paise), percentages in hundredths.           *)
(***************************************************************************)
EXTENDS Integers, Sequences, FiniteSets, TLC

\* ----------------------------------------------------------------------- bounds
\* Number of timer ticks the model follows.
MaxTime == 15
\* Job instances the model can hold in flight at once (the scheduler admits fewer).
NumSlots == 2

\* ------------------------------------------------------------ program constants
\* session window, minutes after midnight: 09:15 and 15:30
MarketOpenMinute == 555
MarketCloseMinute == 930
\* weekday() of the last eligible day (Monday = 0 ... Friday = 4)
LastWeekday == 4
\* data.ta.sma(length=5), data.ta.rsi(length=14)
SMA_LENGTH == 5
RSI_LENGTH == 14
\* RSI thresholds of the signal rule
RSI_OVERBOUGHT == 70
RSI_OVERSOLD == 30
\* polarity thresholds of the sentiment classification, in tenths
POLARITY_LIMIT == 3
\* articles[:5]
MAX_TITLES == 5
\* a scheduler that lets a second instance of the job start
max_instances_two == 1 + 1
\* instances of one job the scheduler lets execute at a time: the default of a
\* job added by run_repeating
max_instances == 1

\* --------------------------------------------------------------------- values
Slots == 1..NumSlots

\* a float that is not a number: every comparison with it is false
NaN == -999999
\* "entry_time" key absent from the JSON object
NoTime == -1

\* The wall clock at tick t = 1, 2, ...  Four samples a day, starting on a Friday:
\* one minute before the session opens, the opening minute, the closing minute,
\* one minute after it.
DayMinutes == <<554, 555, 930, 931>>
Weekday(t) == (4 + ((t - 1) \div Len(DayMinutes))) % 7
MinuteOfDay(t) == DayMinutes[((t - 1) % Len(DayMinutes)) + 1]

\* closing prices the data source may report, in mills
Prices == {90000, 100000, 100004}

VARIABLES
  now,        \* the timer ticks so far; datetime.now() is read from it
  stateFile,  \* trade_state.json
  ledgerFile, \* completed_trades.csv
  inv,        \* the invocations of check_trades, one record per slot
  rep,        \* the command handler at work: /report or /start
  loop,       \* the coroutine the event loop is running, 0 if none
  entries,    \* history: the entry transitions persisted so far
  remembered, \* history: one finished invocation, kept to compare later ones with
  probe       \* a price frame and what get_signal_and_price makes of it

vars == <<now, stateFile, ledgerFile, inv, rep, loop, entries, remembered, probe>>

\* ---------------------------------------------------------------- arithmetic
\* n / d rounded to the nearest integer, ties to even (d > 0): what "{:.2f}" does
\* to a value two decimals cannot hold.
RoundDiv(n, d) ==
  LET q == n \div d
      r == n % d
  IN IF 2 * r < d THEN q
     ELSE IF 2 * r > d THEN q + 1
     ELSE IF q % 2 = 0 THEN q ELSE q + 1

\* f"{x:.2f}" of an amount in mills: the amount in paise
Fmt2(x) == RoundDiv(x, 10)

\* comparisons of floats, false as soon as one side is NaN
Lt(a, b) == a # NaN /\ b # NaN /\ a < b
Gt(a, b) == a # NaN /\ b # NaN /\ a > b

\* ------------------------------------------------------- the persisted state
\* {"open_position": None, "entry_price": 0}
DefaultState == [open_position |-> "None", entry_price |-> 0, entry_time |-> NoTime]

\* The state file: absent, holding a JSON object, or torn (opened for writing
\* and truncated, its new content not yet written).
AbsentFile == [kind |-> "absent", obj |-> DefaultState]
TornFile == [kind |-> "torn", obj |-> DefaultState]
JsonFile(state) == [kind |-> "json", obj |-> state]
\* a state file whose content is not a JSON document
CorruptFile == [kind |-> "corrupt", obj |-> DefaultState]

\* a get_trade_state that takes any file it cannot read for the default state
get_trade_state_resets(file) ==
  IF file.kind = "json" THEN [raises |-> FALSE, state |-> file.obj]
  ELSE [raises |-> FALSE, state |-> DefaultState]

\* get_trade_state: the parsed object, the default when the file is absent;
\* json.load raises on a file that does not hold a JSON document.
get_trade_state(file) ==
  IF file.kind = "absent" THEN [raises |-> FALSE, state |-> DefaultState]
  ELSE IF file.kind = "json" THEN [raises |-> FALSE, state |-> file.obj]
  ELSE [raises |-> TRUE, state |-> DefaultState]

\* set_trade_state, first half: open(STATE_FILE, "w") creates or truncates
set_trade_state_open(file) == TornFile

\* set_trade_state, second half: json.dump and the close that flushes it
set_trade_state_dump(file, state) == JsonFile(state)

\* ----------------------------------------------------------------- the ledger
NoLedger == [exists |-> FALSE, header |-> FALSE, rows |-> <<>>]

\* a row whose percentage is taken of the exit price
TradeRow_percent_of_exit(entry_time, exit_time, trade_type, entry_price, exit_price) ==
  LET profit_loss == exit_price - entry_price
  IN [entry_time |-> entry_time,
      exit_time |-> exit_time,
      trade_type |-> trade_type,
      entry_price |-> Fmt2(entry_price),
      exit_price |-> Fmt2(exit_price),
      profit_loss |-> Fmt2(profit_loss),
      pl_percent |-> IF exit_price > 0
                     THEN RoundDiv(profit_loss * 10000, exit_price)
                     ELSE NaN]

\* a row with the two times in each other's column
TradeRow_times_swapped(entry_time, exit_time, trade_type, entry_price, exit_price) ==
  LET profit_loss == exit_price - entry_price
  IN [entry_time |-> exit_time,
      exit_time |-> entry_time,
      trade_type |-> trade_type,
      entry_price |-> Fmt2(entry_price),
      exit_price |-> Fmt2(exit_price),
      profit_loss |-> Fmt2(profit_loss),
      pl_percent |-> IF entry_price > 0
                     THEN RoundDiv(profit_loss * 10000, entry_price)
                     ELSE NaN]

\* The row log_completed_trade formats.  profit_loss and the percentage are
\* computed on the unrounded prices and rounded when formatted.
TradeRow(entry_time, exit_time, trade_type, entry_price, exit_price) ==
  LET profit_loss == exit_price - entry_price
  IN [entry_time |-> entry_time,
      exit_time |-> exit_time,
      trade_type |-> trade_type,
      entry_price |-> Fmt2(entry_price),
      exit_price |-> Fmt2(exit_price),
      profit_loss |-> Fmt2(profit_loss),
      pl_percent |-> IF entry_price > 0
                     THEN RoundDiv(profit_loss * 10000, entry_price)
                     ELSE NaN]

\* log_completed_trade: append the row, with the header when the file is new
log_completed_trade(file, entry_time, exit_time, trade_type, entry_price, exit_price) ==
  LET header_needed == ~file.exists
  IN [exists |-> TRUE,
      header |-> file.header \/ header_needed,
      rows |-> Append(file.rows,
                      TradeRow(entry_time, exit_time, trade_type, entry_price, exit_price))]

\* ------------------------------------------------------------ the price data
\* What ticker_obj.history returns, as far as the code looks at it: whether the
\* call raised, the number of bars, the closes of the last two bars and the
\* indicator values pandas_ta computed for them.  pandas_ta adds no column for an
\* indicator whose window is longer than the data, and a column holds NaN on
\* the bars before the window is full.
Frame(raises, n, prevClose, prevSMA, Close, SMA, RSI) ==
  [raises |-> raises, n |-> n,
   hasSMA |-> n >= SMA_LENGTH,
   hasRSI |-> n >= RSI_LENGTH,
   prevClose |-> prevClose,
   prevSMA |-> IF n >= SMA_LENGTH + 1 THEN prevSMA ELSE NaN,
   Close |-> Close,
   SMA |-> IF n >= SMA_LENGTH THEN SMA ELSE NaN,
   RSI |-> IF n >= RSI_LENGTH + 1 THEN RSI ELSE NaN]

BarCounts == {0, 1, 3, 5, 6, 14, 15}
Frames ==
  {Frame(TRUE, 0, 0, 0, 0, 0, 0)} \cup
  {Frame(FALSE, n, 100000 + d, 100000, c, c + e, r) :
     n \in BarCounts, d \in {-1000, 0, 1000}, c \in Prices,
     e \in {-1000, 0, 1000}, r \in {30, 31, 69, 70}}

\* get_signal_and_price.  A row lookup of a column the frame does not have raises
\* KeyError; `and` evaluates its operands from the left and stops at a false one.
get_signal_and_price(data) ==
  LET none == [raises |-> FALSE, signal |-> "None", price |-> 0]
      buy2 == Lt(data.prevClose, data.prevSMA) /\ Gt(data.Close, data.SMA)
      sell2 == Gt(data.prevClose, data.prevSMA) /\ Lt(data.Close, data.SMA)
      keyError == [raises |-> TRUE, signal |-> "None", price |-> 0]
      result(signal) == [raises |-> FALSE, signal |-> signal, price |-> data.Close]
  IN IF data.raises THEN keyError
     ELSE IF data.n = 0 THEN none
     ELSE IF data.n < 2 THEN none
     ELSE IF ~data.hasSMA THEN keyError
     ELSE IF buy2
       THEN (IF ~data.hasRSI THEN keyError
             ELSE IF Lt(data.RSI, RSI_OVERBOUGHT) THEN result("BUY")
             ELSE IF sell2 /\ Gt(data.RSI, RSI_OVERSOLD) THEN result("SELL")
             ELSE result("None"))
     ELSE IF sell2
       THEN (IF ~data.hasRSI THEN keyError
             ELSE IF Gt(data.RSI, RSI_OVERSOLD) THEN result("SELL")
             ELSE result("None"))
     ELSE result("None")

\* ------------------------------------------------------------------ the news
\* What the news request gives: an error of the request, an HTTP error status,
\* a response the code cannot read, or the articles, each with the polarity
\* TextBlob gives its title, in tenths.
News(kind, polarities) == [kind |-> kind, polarities |-> polarities]
NewsOutcomes ==
  {News(k, <<>>) : k \in {"request_error", "http_error", "malformed"}} \cup
  {News("ok", ps) : ps \in {<<>>, <<4>>, <<3>>, <<-3>>, <<-4>>, <<2, 2>>,
                             <<1, 1, 1, 0, 0, 5>>, <<-1, -1, -1, 0, 0, -5>>}}

RECURSIVE SumSeq(_)
SumSeq(s) == IF s = <<>> THEN 0 ELSE Head(s) + SumSeq(Tail(s))

FirstN(s, k) == IF Len(s) <= k THEN s ELSE SubSeq(s, 1, k)

\* lines 104-113, the body of the try: requests.get, raise_for_status, the parse
\* of the response or the polarity of a title raise; otherwise the category
news_sentiment_try(news) ==
  IF news.kind # "ok" THEN [raises |-> TRUE, sentiment |-> ""]
  ELSE IF news.polarities = <<>> THEN [raises |-> FALSE, sentiment |-> "Neutral"]
  ELSE LET sentiment_polarity == SumSeq(FirstN(news.polarities, MAX_TITLES))
       IN [raises |-> FALSE,
           sentiment |-> IF sentiment_polarity > POLARITY_LIMIT THEN "Positive"
                         ELSE IF sentiment_polarity < -POLARITY_LIMIT THEN "Negative"
                         ELSE "Neutral"]

\* a filter that fails closed: an unavailable source blocks the entry
get_news_sentiment_fail_closed(news) ==
  IF news_sentiment_try(news).raises THEN "Negative"
  ELSE news_sentiment_try(news).sentiment

\* get_news_sentiment: every exception ends in "Neutral"
get_news_sentiment(news) ==
  IF news_sentiment_try(news).raises THEN "Neutral"
  ELSE news_sentiment_try(news).sentiment

\* ------------------------------------------------------------- check_trades
NoMessage == [kind |-> "NONE", price |-> 0, profit |-> 0, percent |-> 0, sentiment |-> ""]

\* what an invocation keeps of the news it got: the kind and the number of articles
NoNews == [kind |-> "", articles |-> 0]

\* An invocation of check_trades: where it stands, its local variables, and what
\* it found when it started (file0, ledger0) and did since (steps).
IdleInv ==
  [pc |-> "idle", now_ist |-> NoTime, bars |-> -1, signal |-> "None", price |-> 0,
   state |-> DefaultState, news |-> NoNews, sentiment |-> "", message |-> NoMessage,
   delivered |-> FALSE, file0 |-> AbsentFile, ledger0 |-> NoLedger,
   steps |-> {}, outcome |-> ""]

Running(i) == inv[i].pc \notin {"idle", "done"}

\* instances of the job the scheduler counts as executing
instances == Cardinality({i \in Slots : Running(i)})

\* the slot a new instance takes
FreeSlot == CHOOSE i \in Slots : ~Running(i) /\ \A j \in Slots : ~Running(j) => i <= j

\* a gate that closes the session at the closing minute instead of after it
Admitted_close_excluded(t) ==
  /\ MarketOpenMinute <= MinuteOfDay(t)
  /\ MinuteOfDay(t) < MarketCloseMinute
  /\ 0 <= Weekday(t) /\ Weekday(t) <= LastWeekday

\* the session window and the weekdays of the gate
Admitted(t) ==
  /\ MarketOpenMinute <= MinuteOfDay(t)
  /\ MinuteOfDay(t) <= MarketCloseMinute
  /\ 0 <= Weekday(t) /\ Weekday(t) <= LastWeekday

\* an entry branch that does not look at the position
EntryCondition_any_position(signal, state, sentiment) ==
  signal = "BUY" /\ sentiment # "Negative"

\* the conditions of the two branches
EntryCondition(signal, state, sentiment) ==
  signal = "BUY" /\ state.open_position = "None" /\ sentiment # "Negative"

\* an exit branch without the sentiment veto
ExitCondition_no_veto(signal, state, sentiment) ==
  signal = "SELL" /\ state.open_position = "LONG"

ExitCondition(signal, state, sentiment) ==
  signal = "SELL" /\ state.open_position = "LONG" /\ sentiment # "Positive"

\* a new_state stamped with the price as the ledger formats it
EntryState_rounded(price, now_ist) ==
  [open_position |-> "LONG", entry_price |-> Fmt2(price) * 10, entry_time |-> now_ist]

\* new_state of the entry branch
EntryState(price, now_ist) ==
  [open_position |-> "LONG", entry_price |-> price, entry_time |-> now_ist]

\* a reset that forgets to clear the entry time
ResetState_keeps_time == [open_position |-> "None", entry_price |-> 0, entry_time |-> 1]

\* the state the exit branch writes
ResetState == [open_position |-> "None", entry_price |-> 0, entry_time |-> NoTime]

\* check_trades going on without a signal
FetchNext_no_return(r) ==
  IF r.raises THEN "raised"
  ELSE "read_state"

\* lines 131-133: what check_trades does with the result of get_signal_and_price
FetchNext(r) ==
  IF r.raises THEN "raised"
  ELSE IF r.signal = "None" THEN "returned"
  ELSE "read_state"

\* no summary was sent
NoSummary == [sent |-> FALSE, total |-> 0, wins |-> 0, losses |-> 0,
              win_rate |-> 0, total_pnl |-> 0]
\* no command is being handled
IdleRep == [pc |-> "idle", seen |-> <<>>, doc |-> <<>>, summary |-> NoSummary]
\* nothing remembered, nothing probed
NoRun == [set |-> FALSE, position |-> "", signal |-> "", sentiment |-> "",
          ended |-> "", appended |-> FALSE]
NoProbe == [set |-> FALSE, data |-> Frame(TRUE, 0, 0, 0, 0, 0, 0),
            result |-> [raises |-> TRUE, signal |-> "None", price |-> 0]]

Finish(i, how) == [inv EXCEPT ![i].pc = "done", ![i].outcome = how]

Init ==
  /\ now = 0
  /\ stateFile = AbsentFile
  /\ ledgerFile = NoLedger
  /\ inv = [i \in Slots |-> IdleInv]
  /\ rep = IdleRep
  /\ loop = 0
  /\ entries = 0
  /\ remembered = NoRun
  /\ probe = NoProbe

\* The timer fires and the scheduler starts an instance of the job.
JobRun ==
  /\ loop = 0
  /\ now < MaxTime
  /\ instances < max_instances
  /\ \E i \in Slots : ~Running(i)
  /\ now' = now + 1
  /\ inv' = [inv EXCEPT ![FreeSlot] =
                [IdleInv EXCEPT !.pc = "gate"]]
  /\ UNCHANGED <<stateFile, ledgerFile, rep, loop, entries, remembered, probe>>

\* The timer fires while the instances allowed are executing: the run is skipped.
JobSkipped ==
  /\ loop = 0
  /\ now < MaxTime
  /\ instances >= max_instances
  /\ now' = now + 1
  /\ UNCHANGED <<stateFile, ledgerFile, inv, rep, loop, entries, remembered, probe>>

\* lines 121-127: the clock is read and the gate decides
Gate(i) ==
  /\ loop = 0
  /\ inv[i].pc = "gate"
  /\ LET now_ist == now
         started == [inv EXCEPT ![i].now_ist = now_ist, ![i].file0 = stateFile,
                                ![i].ledger0 = ledgerFile]
     IN IF Admitted(now_ist)
        THEN /\ inv' = [started EXCEPT ![i].pc = "fetch"]
             /\ loop' = i
        ELSE /\ inv' = [started EXCEPT ![i].pc = "done", ![i].outcome = "returned"]
             /\ loop' = 0
  /\ UNCHANGED <<now, stateFile, ledgerFile, rep, entries, remembered, probe>>

\* lines 130-133
Fetch(i) ==
  /\ loop = i
  /\ inv[i].pc = "fetch"
  /\ \E data \in Frames :
       LET r == get_signal_and_price(data)
           got == [inv EXCEPT ![i].bars = data.n, ![i].signal = r.signal,
                              ![i].price = r.price, ![i].steps = @ \cup {"fetch"}]
       IN IF FetchNext(r) = "read_state"
          THEN /\ inv' = [got EXCEPT ![i].pc = "read_state"]
               /\ loop' = i
          ELSE /\ inv' = [got EXCEPT ![i].pc = "done", ![i].outcome = FetchNext(r)]
               /\ loop' = 0
  /\ UNCHANGED <<now, stateFile, ledgerFile, rep, entries, remembered, probe>>

\* line 135
ReadState(i) ==
  /\ loop = i
  /\ inv[i].pc = "read_state"
  /\ LET r == get_trade_state(stateFile)
         got == [inv EXCEPT ![i].steps = @ \cup {"read_state"}]
     IN IF r.raises
        THEN /\ inv' = [got EXCEPT ![i].pc = "done", ![i].outcome = "raised"]
             /\ loop' = 0
        ELSE /\ inv' = [got EXCEPT ![i].pc = "sentiment", ![i].state = r.state]
             /\ loop' = i
  /\ UNCHANGED <<now, stateFile, ledgerFile, rep, entries, remembered, probe>>

\* line 136
Sentiment(i) ==
  /\ loop = i
  /\ inv[i].pc = "sentiment"
  /\ \E news \in NewsOutcomes :
       inv' = [inv EXCEPT ![i].pc = "decide",
                          ![i].news = [kind |-> news.kind, articles |-> Len(news.polarities)],
                          ![i].sentiment = get_news_sentiment(news),
                          ![i].steps = @ \cup {"sentiment"}]
  /\ UNCHANGED <<now, stateFile, ledgerFile, rep, loop, entries, remembered, probe>>

\* lines 139, 147, 163-164: the branch taken
Decide(i) ==
  /\ loop = i
  /\ inv[i].pc = "decide"
  /\ IF EntryCondition(inv[i].signal, inv[i].state, inv[i].sentiment)
     THEN inv' = [inv EXCEPT ![i].pc = "entry_open"] /\ loop' = i
     ELSE IF ExitCondition(inv[i].signal, inv[i].state, inv[i].sentiment)
     THEN inv' = [inv EXCEPT ![i].pc = "exit_log"] /\ loop' = i
     ELSE inv' = Finish(i, "returned") /\ loop' = 0
  /\ UNCHANGED <<now, stateFile, ledgerFile, rep, entries, remembered, probe>>

\* line 141, first half: the state file is opened for writing
EntryOpen(i) ==
  /\ loop = i
  /\ inv[i].pc = "entry_open"
  /\ stateFile' = set_trade_state_open(stateFile)
  /\ inv' = [inv EXCEPT ![i].pc = "entry_dump"]
  /\ UNCHANGED <<now, ledgerFile, rep, loop, entries, remembered, probe>>

\* lines 140-143: new_state is written, the message is built and send_message
\* is awaited, which gives the event loop to the other coroutines
EntryDump(i) ==
  /\ loop = i
  /\ inv[i].pc = "entry_dump"
  /\ stateFile' = set_trade_state_dump(stateFile, EntryState(inv[i].price, inv[i].now_ist))
  /\ inv' = [inv EXCEPT ![i].pc = "entry_await",
                        ![i].steps = @ \cup {"set_trade_state", "send_message"},
                        ![i].message = [kind |-> "ENTRY", price |-> Fmt2(inv[i].price),
                                        profit |-> 0, percent |-> 0,
                                        sentiment |-> inv[i].sentiment]]
  /\ loop' = 0
  /\ entries' = entries + 1
  /\ UNCHANGED <<now, ledgerFile, rep, remembered, probe>>

\* lines 143-144: send_message returns, or raises and ends the invocation
EntrySent(i) ==
  /\ loop = 0
  /\ inv[i].pc = "entry_await"
  /\ \E ok \in BOOLEAN :
       inv' = [inv EXCEPT ![i].pc = "done", ![i].delivered = ok,
                          ![i].outcome = IF ok THEN "returned" ELSE "raised"]
  /\ UNCHANGED <<now, stateFile, ledgerFile, rep, loop, entries, remembered, probe>>

\* lines 148-160: the completed trade is appended to the ledger, the message is
\* built from what log_completed_trade returned, and send_message is awaited
ExitLog(i) ==
  /\ loop = i
  /\ inv[i].pc = "exit_log"
  /\ LET logged == log_completed_trade(ledgerFile, inv[i].state.entry_time, inv[i].now_ist,
                                       "LONG", inv[i].state.entry_price, inv[i].price)
         row == logged.rows[Len(logged.rows)]
     IN /\ ledgerFile' = logged
        /\ inv' = [inv EXCEPT ![i].pc = "exit_await",
                              ![i].steps = @ \cup {"log_completed_trade", "send_message"},
                              ![i].message = [kind |-> "EXIT", price |-> Fmt2(inv[i].price),
                                              profit |-> row.profit_loss,
                                              percent |-> row.pl_percent,
                                              sentiment |-> inv[i].sentiment]]
  /\ loop' = 0
  /\ UNCHANGED <<now, stateFile, rep, entries, remembered, probe>>

\* line 160: send_message returns and the invocation goes on to line 161, or it
\* raises and the invocation ends there
ExitSent(i) ==
  /\ loop = 0
  /\ inv[i].pc = "exit_await"
  /\ \E ok \in BOOLEAN :
       IF ok
       THEN /\ inv' = [inv EXCEPT ![i].pc = "exit_open", ![i].delivered = TRUE]
            /\ loop' = i
       ELSE /\ inv' = Finish(i, "raised")
            /\ loop' = 0
  /\ UNCHANGED <<now, stateFile, ledgerFile, rep, entries, remembered, probe>>

\* line 161, first half: the state file is opened for writing
ExitOpen(i) ==
  /\ loop = i
  /\ inv[i].pc = "exit_open"
  /\ stateFile' = set_trade_state_open(stateFile)
  /\ inv' = [inv EXCEPT ![i].pc = "exit_dump"]
  /\ UNCHANGED <<now, ledgerFile, rep, loop, entries, remembered, probe>>

\* lines 161-162: the reset state is written
ExitDump(i) ==
  /\ loop = i
  /\ inv[i].pc = "exit_dump"
  /\ stateFile' = set_trade_state_dump(stateFile, ResetState)
  /\ inv' = [Finish(i, "returned") EXCEPT ![i].steps = @ \cup {"set_trade_state"}]
  /\ loop' = 0
  /\ UNCHANGED <<now, ledgerFile, rep, entries, remembered, probe>>

check_trades(i) ==
  \/ Gate(i) \/ Fetch(i) \/ ReadState(i) \/ Sentiment(i) \/ Decide(i)
  \/ EntryOpen(i) \/ EntryDump(i) \/ EntrySent(i)
  \/ ExitLog(i) \/ ExitSent(i) \/ ExitOpen(i) \/ ExitDump(i)

\* ------------------------------------------------------------------ /report
\* the sum of the Profit/Loss column, read back as numbers
SumProfitLoss(rows) == SumSeq([k \in 1..Len(rows) |-> rows[k].profit_loss])

\* a summary that counts a trade of no profit as a win
Summary_zero_wins(rows) ==
  LET total_trades == Len(rows)
      wins == Cardinality({k \in 1..Len(rows) : rows[k].profit_loss >= 0})
      losses == Cardinality({k \in 1..Len(rows) : rows[k].profit_loss < 0})
  IN [sent |-> TRUE,
      total |-> total_trades,
      wins |-> wins,
      losses |-> losses,
      win_rate |-> IF total_trades > 0 THEN RoundDiv(wins * 10000, total_trades) ELSE 0,
      total_pnl |-> SumProfitLoss(rows)]

\* lines 186-201: the figures of the summary message.  The Profit/Loss column
\* is read back from its two-decimal text; the win rate is a percentage, shown
\* to two decimals (held here in hundredths of a percent).
Summary(rows) ==
  LET total_trades == Len(rows)
      wins == Cardinality({k \in 1..Len(rows) : rows[k].profit_loss > 0})
      losses == Cardinality({k \in 1..Len(rows) : rows[k].profit_loss <= 0})
  IN [sent |-> TRUE,
      total |-> total_trades,
      wins |-> wins,
      losses |-> losses,
      win_rate |-> IF total_trades > 0 THEN RoundDiv(wins * 10000, total_trades) ELSE 0,
      total_pnl |-> SumProfitLoss(rows)]

\* lines 179-202: the ledger is read and the summary (or the reply that there is
\* nothing to report) is sent
ReportRead ==
  /\ loop = 0
  /\ rep.pc = "idle"
  /\ rep' = IF ~ledgerFile.exists THEN [rep EXCEPT !.pc = "reply_no_file"]
            ELSE IF ledgerFile.rows = <<>> THEN [rep EXCEPT !.pc = "reply_empty"]
            ELSE [rep EXCEPT !.pc = "reply_summary", !.seen = ledgerFile.rows,
                             !.summary = Summary(ledgerFile.rows)]
  /\ UNCHANGED <<now, stateFile, ledgerFile, inv, loop, entries, remembered, probe>>

\* the ledger opened for writing where it is only to be read: the file is emptied
ReportSendDocument_truncates ==
  /\ loop = 0
  /\ rep.pc = "reply_summary"
  /\ rep' = [rep EXCEPT !.pc = "send_document", !.doc = <<>>]
  /\ ledgerFile' = [ledgerFile EXCEPT !.header = FALSE, !.rows = <<>>]
  /\ UNCHANGED <<now, stateFile, inv, loop, entries, remembered, probe>>

\* line 205: after the summary the ledger file is opened again and sent
ReportSendDocument ==
  /\ loop = 0
  /\ rep.pc = "reply_summary"
  /\ rep' = [rep EXCEPT !.pc = "send_document", !.doc = ledgerFile.rows]
  /\ UNCHANGED <<now, stateFile, ledgerFile, inv, loop, entries, remembered, probe>>

\* the handler returns
ReportDone ==
  /\ loop = 0
  /\ rep.pc \in {"reply_no_file", "reply_empty", "send_document"}
  /\ rep' = IdleRep
  /\ UNCHANGED <<now, stateFile, ledgerFile, inv, loop, entries, remembered, probe>>

report == ReportRead \/ ReportSendDocument \/ ReportDone

\* ------------------------------------------------------------------- /start
\* lines 171-175: the help text is sent
StartReply ==
  /\ loop = 0
  /\ rep.pc = "idle"
  /\ rep' = [rep EXCEPT !.pc = "start_reply"]
  /\ UNCHANGED <<now, stateFile, ledgerFile, inv, loop, entries, remembered, probe>>

\* the handler returns
StartDone ==
  /\ loop = 0
  /\ rep.pc = "start_reply"
  /\ rep' = IdleRep
  /\ UNCHANGED <<now, stateFile, ledgerFile, inv, loop, entries, remembered, probe>>

start == StartReply \/ StartDone

Next ==
  \/ JobRun
  \/ JobSkipped
  \/ \E i \in Slots : check_trades(i)
  \/ report
  \/ start

Spec == Init /\ [][Next]_vars

\* The bot starts in a directory where an earlier run left no state file or one
\* that is not a JSON document.
InitRestart ==
  /\ now = 0
  /\ stateFile \in {AbsentFile, CorruptFile}
  /\ ledgerFile = NoLedger
  /\ inv = [i \in Slots |-> IdleInv]
  /\ rep = IdleRep
  /\ loop = 0
  /\ entries = 0
  /\ remembered = NoRun
  /\ probe = NoProbe

SpecRestart == InitRestart /\ [][Next]_vars

\* ------------------------------------------------------------------ observers
\* what a finished invocation that reached the state machine started from and
\* ended with: the position it found, its signal and sentiment, the position in
\* the state file at its end, and whether it appended to the ledger
RunSummary(i) ==
  [set |-> TRUE,
   position |-> inv[i].state.open_position,
   signal |-> inv[i].signal,
   sentiment |-> inv[i].sentiment,
   ended |-> get_trade_state(stateFile).state.open_position,
   appended |-> Len(ledgerFile.rows) > Len(inv[i].ledger0.rows)]

\* one finished invocation is remembered, once
RememberRun ==
  /\ loop = 0
  /\ ~remembered.set
  /\ \E i \in Slots :
       /\ inv[i].pc = "done"
       /\ "sentiment" \in inv[i].steps
       /\ remembered' = RunSummary(i)
  /\ UNCHANGED <<now, stateFile, ledgerFile, inv, rep, loop, entries, probe>>

\* get_signal_and_price is applied to a price frame
ProbeSignal ==
  /\ \E data \in Frames :
       probe' = [set |-> TRUE, data |-> data, result |-> get_signal_and_price(data)]
  /\ UNCHANGED <<now, stateFile, ledgerFile, inv, rep, loop, entries, remembered>>

\* get_signal_and_price alone, on every frame
SpecSignal == Init /\ [][ProbeSignal]_vars

\* the program, with one of its invocations remembered
SpecObserved == Init /\ [][Next \/ RememberRun]_vars

\* ===================================================================== claims
Done(i) == inv[i].pc = "done"

\* the position an invocation found persisted when it started
Position0(i) == get_trade_state(inv[i].file0).state

\* the invocation got a signal and went on to the state machine
Evaluated(i) == "sentiment" \in inv[i].steps

\* C1: whenever the state file holds a position state, entry_price and
\* entry_time are set if and only if open_position is LONG: LONG comes with a
\* non-zero entry_price and an entry_time, FLAT with entry_price 0 and no
\* entry_time.
C1_EntrySetIffLong ==
  stateFile.kind = "json" =>
    /\ stateFile.obj.open_position \in {"None", "LONG"}
    /\ stateFile.obj.open_position = "LONG" =>
         stateFile.obj.entry_price # 0 /\ stateFile.obj.entry_time # NoTime
    /\ stateFile.obj.open_position = "None" =>
         stateFile.obj.entry_price = 0 /\ stateFile.obj.entry_time = NoTime

\* a position was opened and closed again: the file holds the reset state
C1_Witness ==
  /\ stateFile.kind = "json"
  /\ stateFile.obj.open_position = "None"
  /\ Len(ledgerFile.rows) >= 1

\* C2 (as claimed): every cycle that started LONG (E, T0) and saw SELL with a
\* sentiment other than Positive at price P and time T1 ends with the state
\* file reset to the default and exactly one row {T0, T1, E, P} appended.
C2_ExitResetsAndLogs ==
  \A i \in Slots :
    (/\ Done(i) /\ Evaluated(i)
     /\ Position0(i).open_position = "LONG"
     /\ inv[i].signal = "SELL"
     /\ inv[i].sentiment # "Positive")
    => /\ stateFile = JsonFile(DefaultState)
       /\ ledgerFile.rows =
            Append(inv[i].ledger0.rows,
                   [entry_time |-> Position0(i).entry_time,
                    exit_time |-> inv[i].now_ist,
                    trade_type |-> "LONG",
                    entry_price |-> Fmt2(Position0(i).entry_price),
                    exit_price |-> Fmt2(inv[i].price),
                    profit_loss |-> Fmt2(inv[i].price - Position0(i).entry_price),
                    pl_percent |-> RoundDiv((inv[i].price - Position0(i).entry_price) * 10000,
                                            Position0(i).entry_price)])

\* C3: every cycle that started FLAT and saw BUY with a sentiment other than
\* Negative at price P and cycle time T ends with the state file holding LONG,
\* entry_price P and entry_time T, and with the ledger as it found it.
C3_EntryTaken ==
  \A i \in Slots :
    (/\ Done(i) /\ Evaluated(i)
     /\ Position0(i).open_position = "None"
     /\ inv[i].signal = "BUY"
     /\ inv[i].sentiment # "Negative")
    => /\ stateFile.kind = "json"
       /\ stateFile.obj.open_position = "LONG"
       /\ stateFile.obj.entry_price = inv[i].price
       /\ stateFile.obj.entry_time = inv[i].now_ist
       /\ ledgerFile = inv[i].ledger0

\* an entry taken from the reset state an earlier exit left in the file
C3_Witness ==
  \E i \in Slots :
    /\ Done(i) /\ Evaluated(i)
    /\ inv[i].file0.kind = "json"
    /\ Position0(i).open_position = "None"
    /\ inv[i].signal = "BUY"
    /\ inv[i].sentiment = "Positive"

\* C4: a cycle with FLAT, BUY and Negative leaves the state file as it was; a
\* cycle with LONG, SELL and Positive leaves the state file (LONG, the same
\* entry_price and entry_time) and the ledger as they were; with Neutral a BUY
\* in FLAT takes the entry branch and a SELL in LONG takes the exit branch.
C4_SentimentVeto ==
  \A i \in Slots :
    (Done(i) /\ Evaluated(i)) =>
      /\ (/\ Position0(i).open_position = "None"
          /\ inv[i].signal = "BUY"
          /\ inv[i].sentiment = "Negative")
         => stateFile = inv[i].file0 /\ ledgerFile = inv[i].ledger0
      /\ (/\ Position0(i).open_position = "LONG"
          /\ inv[i].signal = "SELL"
          /\ inv[i].sentiment = "Positive")
         => stateFile = inv[i].file0 /\ ledgerFile = inv[i].ledger0
      /\ (/\ Position0(i).open_position = "None"
          /\ inv[i].signal = "BUY"
          /\ inv[i].sentiment = "Neutral")
         => /\ inv[i].message.kind = "ENTRY"
            /\ stateFile.kind = "json" /\ stateFile.obj.open_position = "LONG"
      /\ (/\ Position0(i).open_position = "LONG"
          /\ inv[i].signal = "SELL"
          /\ inv[i].sentiment = "Neutral")
         => /\ inv[i].message.kind = "EXIT"
            /\ Len(ledgerFile.rows) = Len(inv[i].ledger0.rows) + 1

\* an exit vetoed by a Positive sentiment
C4_Witness ==
  \E i \in Slots :
    /\ Done(i) /\ Evaluated(i)
    /\ Position0(i).open_position = "LONG"
    /\ inv[i].signal = "SELL"
    /\ inv[i].sentiment = "Positive"

\* C5: a finished cycle whose (position, signal, sentiment) is neither (FLAT,
\* BUY, not Negative) nor (LONG, SELL, not Positive) leaves the state file and
\* the ledger exactly as it found them.
C5_NoOtherTransition ==
  \A i \in Slots :
    (/\ Done(i)
     /\ "fetch" \in inv[i].steps
     /\ ~(/\ Position0(i).open_position = "None"
          /\ inv[i].signal = "BUY"
          /\ inv[i].sentiment \in {"Positive", "Neutral"})
     /\ ~(/\ Position0(i).open_position = "LONG"
          /\ inv[i].signal = "SELL"
          /\ inv[i].sentiment \in {"Negative", "Neutral"}))
    => stateFile = inv[i].file0 /\ ledgerFile = inv[i].ledger0

\* a BUY with a favourable sentiment while the position is LONG
C5_Witness ==
  \E i \in Slots :
    /\ Done(i) /\ Evaluated(i)
    /\ Position0(i).open_position = "LONG"
    /\ inv[i].signal = "BUY"
    /\ inv[i].sentiment = "Positive"

\* C6 (as claimed): a cycle that took the entry or the exit branch ends with the
\* state after the transition in the state file (LONG with this cycle's price
\* and time after an entry, the default after an exit), whether send_message
\* returned or raised.
C6_TransitionSurvivesNotification ==
  \A i \in Slots :
    Done(i) =>
      /\ inv[i].message.kind = "ENTRY" =>
           stateFile = JsonFile(EntryState(inv[i].price, inv[i].now_ist))
      /\ inv[i].message.kind = "EXIT" => stateFile = JsonFile(DefaultState)

\* C7 (as claimed): the ledger holds one row per closed position: no two rows
\* carry the same entry_time.
C7_OneRowPerPosition ==
  \A j, k \in 1..Len(ledgerFile.rows) :
    j # k => ledgerFile.rows[j].entry_time # ledgerFile.rows[k].entry_time

\* from its read of the state file to its last write of it
InCriticalSection(i) ==
  inv[i].pc \in {"sentiment", "decide", "entry_open", "entry_dump",
                 "exit_log", "exit_await", "exit_open", "exit_dump"}

\* C8: no two invocations of check_trades are between their read of the state
\* file and their last write of it at the same time, also while one is suspended
\* in send_message; and what an invocation is about to write over or to log is
\* still the state it read.
C8_NoOverlap ==
  /\ \A i, j \in Slots : i # j => ~(InCriticalSection(i) /\ InCriticalSection(j))
  /\ \A i \in Slots :
       inv[i].pc \in {"entry_open", "exit_log", "exit_open"} =>
         get_trade_state(stateFile) = [raises |-> FALSE, state |-> inv[i].state]

\* the timer fired while an invocation was suspended in the send_message of its
\* exit branch, the state file not yet reset
C8_Witness ==
  \E i \in Slots : inv[i].pc = "exit_await" /\ now > inv[i].now_ist

\* C9 (as claimed): the state file never holds a partially written record: at
\* every moment it is absent or holds a complete JSON object, the old one or
\* the new one.
C9_StateFileNeverTorn == stateFile.kind \in {"absent", "json"}

\* C10: a cycle whose price fetch raised, returned no bars or returned fewer
\* bars than the indicators need ends having done nothing but the fetch: no
\* sentiment evaluated, the state file neither read nor written, nothing
\* appended to the ledger, no message built or sent.
C10_NoDataAborts ==
  \A i \in Slots :
    (Done(i) /\ "fetch" \in inv[i].steps /\ inv[i].bars <= RSI_LENGTH)
    => /\ inv[i].steps = {"fetch"}
       /\ inv[i].sentiment = ""
       /\ inv[i].message = NoMessage
       /\ stateFile = inv[i].file0
       /\ ledgerFile = inv[i].ledger0

\* the fetch returned nothing while a position was open
C10_Witness ==
  \E i \in Slots :
    /\ Done(i) /\ "fetch" \in inv[i].steps
    /\ inv[i].bars = 0
    /\ Position0(i).open_position = "LONG"

\* the news source gave the invocation nothing: an error or no article
NewsUnavailable(i) == inv[i].news.kind # "ok" \/ inv[i].news.articles = 0

\* C11: whenever the news request fails, answers with an HTTP error, cannot be
\* read or holds no article, get_news_sentiment gives Neutral and the cycle goes
\* on: in FLAT with BUY it takes the entry branch (LONG is persisted), in LONG
\* with SELL it takes the exit branch (the trade is appended to the ledger).
C11_SentimentFailsOpen ==
  \A i \in Slots :
    (Evaluated(i) /\ NewsUnavailable(i)) =>
      /\ inv[i].sentiment = "Neutral"
      /\ Done(i) =>
           /\ (Position0(i).open_position = "None" /\ inv[i].signal = "BUY")
              => /\ inv[i].message.kind = "ENTRY"
                 /\ stateFile = JsonFile(EntryState(inv[i].price, inv[i].now_ist))
           /\ (Position0(i).open_position = "LONG" /\ inv[i].signal = "SELL")
              => /\ inv[i].message.kind = "EXIT"
                 /\ Len(ledgerFile.rows) = Len(inv[i].ledger0.rows) + 1

\* an entry taken although the news request failed
C11_Witness ==
  \E i \in Slots :
    /\ Done(i) /\ Evaluated(i)
    /\ inv[i].news.kind = "request_error"
    /\ inv[i].message.kind = "ENTRY"

\* the wall clock of the invocation is in the session: 09:15 to 15:30, both
\* included, Monday to Friday
InSession(i) ==
  /\ MinuteOfDay(inv[i].now_ist) \in MarketOpenMinute..MarketCloseMinute
  /\ Weekday(inv[i].now_ist) \in 0..LastWeekday

\* C12: an invocation whose clock is outside the session ends at the gate: it
\* fetches no prices and no news, reads and writes no state, appends nothing
\* to the ledger and builds no message; an invocation whose clock is inside the
\* session goes on to the price fetch.
C12_GateDeniesOutsideSession ==
  \A i \in Slots :
    inv[i].pc \notin {"idle", "gate"} =>
      /\ ~InSession(i) =>
           /\ Done(i)
           /\ inv[i].steps = {}
           /\ inv[i].message = NoMessage
           /\ stateFile = inv[i].file0
           /\ ledgerFile = inv[i].ledger0
      /\ InSession(i) => (inv[i].pc = "fetch" \/ "fetch" \in inv[i].steps)

\* a tick on a Saturday at 09:15, a position open: denied
C12_Witness ==
  \E i \in Slots :
    /\ Done(i)
    /\ Weekday(inv[i].now_ist) = 5
    /\ MinuteOfDay(inv[i].now_ist) = MarketOpenMinute
    /\ Position0(i).open_position = "LONG"

\* C13 (as claimed): two finished invocations that started from the same
\* open_position with the same signal and the same sentiment end with the same
\* open_position in the state file and agree on whether a trade was appended.
C13_Deterministic ==
  \A i \in Slots :
    (/\ remembered.set
     /\ Done(i) /\ Evaluated(i)
     /\ RunSummary(i).position = remembered.position
     /\ RunSummary(i).signal = remembered.signal
     /\ RunSummary(i).sentiment = remembered.sentiment)
    => /\ RunSummary(i).ended = remembered.ended
       /\ RunSummary(i).appended = remembered.appended

\* C14: an invocation that reads the state while the file is absent takes the
\* default FLAT state and goes on; an invocation that reads it while the file is
\* not a JSON document ends there with an exception: no sentiment is fetched,
\* no message built, the state file and the ledger stay as they were, and the
\* scheduler can start the next invocation.
C14_CorruptStateFailsCycle ==
  \A i \in Slots :
    "read_state" \in inv[i].steps =>
      /\ inv[i].file0.kind = "absent" =>
           /\ inv[i].state = DefaultState
           /\ inv[i].pc = "sentiment" \/ "sentiment" \in inv[i].steps
      /\ inv[i].file0.kind = "corrupt" =>
           /\ Done(i) /\ inv[i].outcome = "raised"
           /\ inv[i].steps = {"fetch", "read_state"}
           /\ inv[i].message = NoMessage
           /\ stateFile = inv[i].file0
           /\ ledgerFile = inv[i].ledger0
           /\ (now < MaxTime /\ loop = 0) => ENABLED JobRun

\* the second admitted invocation found the file corrupt, as the first had
C14_Witness ==
  \E i \in Slots :
    /\ Done(i) /\ inv[i].outcome = "raised"
    /\ "read_state" \in inv[i].steps
    /\ inv[i].file0.kind = "corrupt"
    /\ inv[i].signal = "BUY"
    /\ inv[i].now_ist = 3

Abs(x) == IF x < 0 THEN -x ELSE x

\* the row an invocation in its exit branch appended
AppendedRow(i) == ledgerFile.rows[Len(inv[i].ledger0.rows) + 1]

\* C15: the row of an exit with entry price E > 0 and exit price X holds
\* profit_loss = X - E and profit_loss_percent = (X - E) / E * 100, each to the
\* two decimals the code formats (within half a unit of the last decimal), the
\* exit message reports the same two values, and E = 2500, X = 2550 gives 50.00
\* and 2.00, E = 100, X = 90 gives -10.00 and -10.00.
C15_ProfitAndPercent ==
  /\ \A i \in Slots :
       inv[i].message.kind = "EXIT" =>
         LET E == inv[i].state.entry_price
             X == inv[i].price
             row == AppendedRow(i)
         IN /\ E > 0
            /\ 2 * Abs(row.profit_loss * 10 - (X - E)) <= 10
            /\ 2 * Abs(row.pl_percent * E - (X - E) * 10000) <= E
            /\ inv[i].message.profit = row.profit_loss
            /\ inv[i].message.percent = row.pl_percent
  /\ TradeRow(0, 1, "LONG", 2500000, 2550000).profit_loss = 5000
  /\ TradeRow(0, 1, "LONG", 2500000, 2550000).pl_percent = 200
  /\ TradeRow(0, 1, "LONG", 100000, 90000).profit_loss = -1000
  /\ TradeRow(0, 1, "LONG", 100000, 90000).pl_percent = -1000

\* a position entered at 100.00 and sold at 90.00: -10.00 and -10.00 %
C15_Witness ==
  \E i \in Slots :
    /\ inv[i].message.kind = "EXIT"
    /\ inv[i].state.entry_price = 100000
    /\ inv[i].price = 90000
    /\ AppendedRow(i).profit_loss = -1000
    /\ AppendedRow(i).pl_percent = -1000

\* the frame was fetched and the two closes, the two averages and the
\* oscillator of its last two bars are numbers
IndicatorsDefined(data) ==
  /\ ~data.raises /\ data.n >= 2
  /\ data.hasSMA /\ data.hasRSI
  /\ data.prevSMA # NaN /\ data.SMA # NaN /\ data.RSI # NaN

\* the frame was fetched and one of the values is not a number: the frame is
\* shorter than two bars, a column is absent or a value is NaN
IndicatorUndefined(data) == ~data.raises /\ ~IndicatorsDefined(data)

\* C16: the signal of a fetched frame is BUY exactly when previous close <
\* previous average, close > average and oscillator < 70, SELL exactly when
\* previous close > previous average, close < average and oscillator > 30, and
\* none otherwise, never both; when an indicator value is undefined the function
\* returns the signal none.
C16_SignalRule ==
  probe.set =>
    LET d == probe.data
        r == probe.result
        buy == d.prevClose < d.prevSMA /\ d.Close > d.SMA /\ d.RSI < 70
        sell == d.prevClose > d.prevSMA /\ d.Close < d.SMA /\ d.RSI > 30
    IN /\ IndicatorsDefined(d) =>
            /\ ~r.raises
            /\ r.signal = "BUY" <=> buy
            /\ r.signal = "SELL" <=> sell
            /\ r.signal = "None" <=> (~buy /\ ~sell)
            /\ ~(buy /\ sell)
            /\ r.price = d.Close
       /\ IndicatorUndefined(d) => (~r.raises /\ r.signal = "None")

\* the part of the rule that is about defined values and about values that are
\* NaN in a column the frame has
C16_RuleOnPresentColumns ==
  probe.set =>
    LET d == probe.data
        r == probe.result
        buy == d.prevClose < d.prevSMA /\ d.Close > d.SMA /\ d.RSI < 70
        sell == d.prevClose > d.prevSMA /\ d.Close < d.SMA /\ d.RSI > 30
    IN /\ IndicatorsDefined(d) =>
            /\ ~r.raises
            /\ r.signal = "BUY" <=> buy
            /\ r.signal = "SELL" <=> sell
            /\ ~(buy /\ sell)
       /\ (IndicatorUndefined(d) /\ (d.n < 2 \/ (d.hasSMA /\ d.hasRSI))) =>
            (~r.raises /\ r.signal = "None")

\* a crossing on a frame too short for the oscillator: the lookup raises
C16_ShortFrameRaises ==
  /\ probe.set
  /\ IndicatorUndefined(probe.data)
  /\ probe.data.n >= 2
  /\ probe.result.raises

\* the report handler has read the ledger and is about to reply or has replied
Replied == rep.pc \in {"reply_no_file", "reply_empty", "reply_summary", "send_document"}

\* the figures of rep.summary are those of the rows the handler read
SummaryOfRows ==
  LET rows == rep.seen
      sm == rep.summary
      won == {k \in 1..Len(rows) : rows[k].profit_loss > 0}
      lost == {k \in 1..Len(rows) : ~(rows[k].profit_loss > 0)}
  IN /\ sm.sent
     /\ sm.total = Len(rows)
     /\ sm.wins = Cardinality(won)
     /\ sm.losses = Cardinality(lost)
     /\ sm.wins + sm.losses = sm.total
     /\ 2 * Abs(sm.win_rate * sm.total - sm.wins * 10000) <= sm.total
     /\ sm.total_pnl = SumProfitLoss(rows)

CoreState == <<now, stateFile, ledgerFile, inv, loop, entries>>

\* C18: a step of the start or the report handler leaves the state file, the
\* ledger file and everything the evaluation cycles work on as they were, so
\* that with any number of commands interleaved the files are what the cycles
\* alone make them.
C18_CommandsLeaveCoreState ==
  [][(rep' # rep) => (CoreState' = CoreState)]_vars

\* the ledger is being sent as a document while a position is open and an
\* evaluation cycle is suspended in its notification
C18_Witness ==
  /\ rep.pc = "send_document"
  /\ rep.doc # <<>>
  /\ stateFile.kind = "json" /\ stateFile.obj.open_position = "LONG"
  /\ \E i \in Slots : Running(i)

\* C19: every row of the ledger has an exit time that is not before its entry
\* time, the entry time being the clock reading of the cycle that opened the
\* position and the exit time that of the cycle that closed it.
C19_ExitNotBeforeEntry ==
  \A k \in 1..Len(ledgerFile.rows) :
    LET row == ledgerFile.rows[k]
    IN /\ row.entry_time # NoTime
       /\ row.exit_time # NoTime
       /\ row.exit_time >= row.entry_time
       /\ row.exit_time <= now

\* two positions were closed, the second opened after the first was closed
C19_Witness ==
  /\ Len(ledgerFile.rows) = 2
  /\ ledgerFile.rows[1].exit_time < ledgerFile.rows[2].entry_time
  /\ ledgerFile.rows[2].entry_time < ledgerFile.rows[2].exit_time

\* no invocation of check_trades is between its first and its last step
Quiescent == \A i \in Slots : ~Running(i)

\* C20: entries and exits alternate, starting with an entry: whenever no cycle
\* is in progress, the number of entry transitions minus the number of ledger
\* rows is 1 when the state file says LONG and 0 when it says flat.
C20_EntriesAndExitsAlternate ==
  (Quiescent /\ stateFile.kind # "torn") =>
    LET long == stateFile.kind = "json" /\ stateFile.obj.open_position = "LONG"
    IN entries - Len(ledgerFile.rows) = (IF long THEN 1 ELSE 0)

\* one entry and two ledger rows: the position of a single entry was closed twice
C20_TwoExitsForOneEntry ==
  /\ Quiescent
  /\ entries = 1
  /\ Len(ledgerFile.rows) = 2
====
